---- MODULE Spec2Model ----
(***************************************************************************)
(* Model of helm/provider.go: the provider schema (helm_driver validation, *)
(* the nested kubernetes block and its per-field defaults), configuration  *)
(* resolution (providerConfigure, buildSettings, k8sGetOk, getK8sConfig)   *)
(* and the session factory Meta.GetHelmConfiguration with its mutex.       *)
(*                                                                         *)
(* Go strings are sequences of one-character strings, so that lower-casing,*)
(* formatting and home-directory expansion are computed, not assumed.      *)
(* A Go interface{} value is a record carrying its dynamic type.           *)
(***************************************************************************)
EXTENDS Naturals, Sequences, FiniteSets

VARIABLES
    d,          \* *schema.ResourceData: the declarative configuration block
    env,        \* the process environment as os.Getenv reads it ("" = unset)
    phase,      \* position in the provider's life: "input", "validated", "configured", "serving"
    verrs,      \* errors returned by schema validation (helm_driver ValidateFunc)
    conf,       \* outcome of providerConfigure: returned (Meta, error) or a panic
    m,          \* the Meta shared by all callers once configured
    resolved,   \* result of the last k8sGetOk call: [key, value, ok]
    mutex,      \* Meta's embedded sync.Mutex: Unlocked or the caller holding it
    pc,         \* per caller: position inside GetHelmConfiguration
    ns,         \* per caller: the namespace argument of the call in progress
    initErr,    \* per caller: the error returned by actionConfig.Init
    attempts,   \* per caller: number of Init invocations made by the call in progress
    initArgs,   \* per caller: the arguments handed to actionConfig.Init
    ret,        \* per caller: what the last finished call returned
    started     \* number of GetHelmConfiguration calls started so far

vars == <<d, env, phase, verrs, conf, m, resolved, mutex, pc, ns, initErr,
          attempts, initArgs, ret, started>>

sessionVars == <<mutex, pc, ns, initErr, attempts, initArgs, ret, started>>

-----------------------------------------------------------------------------
(* Bounds of the model *)

\* attributes of the kubernetes block present in an input of k8sGetOk
MaxBlockFields == 1
\* attributes whose environment variables are set in an input of k8sGetOk
MaxEnvAttrs == 1
\* attributes of the kubernetes block present in an input of providerConfigure
MaxConfigFields == 2
\* environment variables set in an input of providerConfigure
MaxConfigEnv == 1
\* at most this many letters of a helm_driver input are upper case
MaxUpper == 2
\* concurrent callers of GetHelmConfiguration
NumCallers == 2
\* GetHelmConfiguration calls started in one run
MaxCalls == 3

-----------------------------------------------------------------------------
(* Strings *)

Upper == <<"A","B","C","D","E","F","G","H","I","J","K","L","M",
           "N","O","P","Q","R","S","T","U","V","W","X","Y","Z">>
Lower == <<"a","b","c","d","e","f","g","h","i","j","k","l","m",
           "n","o","p","q","r","s","t","u","v","w","x","y","z">>

LowerChar(c) ==
    IF \E i \in DOMAIN Upper : Upper[i] = c
    THEN Lower[CHOOSE i \in DOMAIN Upper : Upper[i] = c]
    ELSE c

UpperChar(c) ==
    IF \E i \in DOMAIN Lower : Lower[i] = c
    THEN Upper[CHOOSE i \in DOMAIN Lower : Lower[i] = c]
    ELSE c

\* strings.ToLower
ToLower(s) == [i \in 1..Len(s) |-> LowerChar(s[i])]

\* strings.Contains
Contains(s, sub) ==
    \E i \in 0..(Len(s) - Len(sub)) : SubSeq(s, i + 1, i + Len(sub)) = sub

\* the subsets of S with at most n elements
RECURSIVE SubsetsUpTo(_, _)
SubsetsUpTo(S, n) ==
    IF n = 0 THEN { {} }
    ELSE LET P == SubsetsUpTo(S, n - 1)
         IN P \cup { X \cup { x } : X \in P, x \in S }

\* the variants of word w with at most n letters turned to upper case
CaseVariants(w, n) ==
    { [i \in 1..Len(w) |-> IF i \in U THEN UpperChar(w[i]) ELSE w[i]] :
        U \in SubsetsUpTo(1..Len(w), n) }

EmptyStr == <<>>

-----------------------------------------------------------------------------
(* Go interface{} values *)

NilV == [type |-> "nil", b |-> FALSE, s |-> EmptyStr]
BoolV(x) == [type |-> "bool", b |-> x, s |-> EmptyStr]
StrV(x) == [type |-> "string", b |-> FALSE, s |-> x]

\* the zero value of a schema type
ZeroOf(t) == IF t = "bool" THEN BoolV(FALSE) ELSE StrV(EmptyStr)

\* an attribute of the configuration: present with a value, or absent
Unset == [set |-> FALSE, v |-> NilV]
SetTo(v) == [set |-> TRUE, v |-> v]

\* F applied to the value of x, with x evaluated once (a local variable assignment)
Bind(x, F(_)) == CHOOSE y \in { F(v) : v \in { x } } : TRUE

-----------------------------------------------------------------------------
(* The schema of the nested kubernetes block *)

DefaultKubeConfig == <<"~","/",".","k","u","b","e","/","c","o","n","f","i","g">>

\* one schema.Schema of kubernetesResource(): its Type and its DefaultFunc
\* (Func "Env" is schema.EnvDefaultFunc, "MultiEnv" is schema.MultiEnvDefaultFunc,
\* "none" is a nil DefaultFunc), with the environment keys and default it was built from
EnvSchema(type, key, dv) == [Type |-> type, Func |-> "Env", EnvKeys |-> <<key>>, Dv |-> dv]

kubernetesResource ==
    [ host                   |-> EnvSchema("string", "KUBE_HOST", StrV(EmptyStr)),
      username               |-> EnvSchema("string", "KUBE_USER", StrV(EmptyStr)),
      password               |-> EnvSchema("string", "KUBE_PASSWORD", StrV(EmptyStr)),
      token                  |-> EnvSchema("string", "KUBE_BEARER_TOKEN", StrV(EmptyStr)),
      insecure               |-> EnvSchema("bool", "KUBE_INSECURE", BoolV(FALSE)),
      client_certificate     |-> EnvSchema("string", "KUBE_CLIENT_CERT_DATA", StrV(EmptyStr)),
      client_key             |-> EnvSchema("string", "KUBE_CLIENT_KEY_DATA", StrV(EmptyStr)),
      cluster_ca_certificate |-> EnvSchema("string", "KUBE_CLUSTER_CA_CERT_DATA", StrV(EmptyStr)),
      config_path            |-> [Type |-> "string", Func |-> "MultiEnv",
                                  EnvKeys |-> <<"KUBE_CONFIG", "KUBECONFIG">>,
                                  Dv |-> StrV(DefaultKubeConfig)],
      config_context         |-> EnvSchema("string", "KUBE_CTX", StrV(EmptyStr)),
      in_cluster             |-> [Type |-> "bool", Func |-> "none",
                                  EnvKeys |-> <<>>, Dv |-> NilV],
      load_config_file       |-> EnvSchema("bool", "KUBE_LOAD_CONFIG_FILE", BoolV(TRUE)) ]

K8sKeys == DOMAIN kubernetesResource

\* the top-level attributes of Provider().Schema that take their default from the environment
ProviderSchema ==
    [ debug                  |-> EnvSchema("bool", "HELM_DEBUG", BoolV(FALSE)),
      plugins_path           |-> EnvSchema("string", "HELM_PLUGINS", StrV(<<"d","/","p","l","u","g","i","n","s">>)),
      registry_config_path   |-> EnvSchema("string", "HELM_REGISTRY_CONFIG", StrV(<<"c","/","r","e","g","i","s","t","r","y",".","j","s","o","n">>)),
      repository_config_path |-> EnvSchema("string", "HELM_REPOSITORY_CONFIG", StrV(<<"c","/","r","e","p","o","s","i","t","o","r","i","e","s",".","y","a","m","l">>)),
      repository_cache       |-> EnvSchema("string", "HELM_REPOSITORY_CACHE", StrV(<<"k","/","r","e","p","o","s","i","t","o","r","y">>)),
      helm_driver            |-> EnvSchema("string", "HELM_DRIVER", StrV(<<"s","e","c","r","e","t">>)),
      helm_namespace         |-> EnvSchema("string", "HELM_NAMESPACE", StrV(<<"d","e","f","a","u","l","t">>)) ]

TopKeys == DOMAIN ProviderSchema

EnvVars ==
    UNION { { kubernetesResource[k].EnvKeys[i] : i \in DOMAIN kubernetesResource[k].EnvKeys } : k \in K8sKeys }
    \cup { ProviderSchema[k].EnvKeys[1] : k \in TopKeys }

\* schema.EnvDefaultFunc(k, dv): the variable's text when it is non-empty, else dv.
\* The text is returned as a string whatever the attribute's type.
EnvDefaultFunc(e, k, dv) == IF e[k] # EmptyStr THEN StrV(e[k]) ELSE dv

\* schema.MultiEnvDefaultFunc(ks, dv): the first non-empty variable of ks, else dv
MultiEnvDefaultFunc(e, ks, dv) ==
    IF \E i \in DOMAIN ks : e[ks[i]] # EmptyStr
    THEN StrV(e[ks[CHOOSE i \in DOMAIN ks :
                      /\ e[ks[i]] # EmptyStr
                      /\ \A j \in 1..(i - 1) : e[ks[j]] = EmptyStr]])
    ELSE dv

\* schema.DefaultFunc() of one attribute
DefaultFunc(sch, e) ==
    IF sch.Func = "MultiEnv"
    THEN MultiEnvDefaultFunc(e, sch.EnvKeys, sch.Dv)
    ELSE EnvDefaultFunc(e, sch.EnvKeys[1], sch.Dv)

-----------------------------------------------------------------------------
(* Reading the nested block: k8sGetOk, k8sGet *)

\* d.GetOk(k8sPrefix + key): the value, and whether it is set to a non-zero value.
\* Defaults are not applied inside the list-typed block.
GetOk(dd, key) ==
    LET entry == dd.kubernetes[key]
        value == IF entry.set THEN entry.v ELSE ZeroOf(kubernetesResource[key].Type)
    IN [value |-> value,
        ok |-> entry.set /\ value # ZeroOf(kubernetesResource[key].Type)]

\* d.GetOkExists(k8sPrefix + key): the value, and whether it is set at all
GetOkExists(dd, key) ==
    LET entry == dd.kubernetes[key]
    IN [value |-> IF entry.set THEN entry.v ELSE ZeroOf(kubernetesResource[key].Type),
        ok |-> entry.set]

\* the (value, ok) k8sGetOk returns for a default: a string is ok when it is not
\* empty, a bool when it is true
OfDefault(value, ok) ==
    [value |-> value,
     ok |-> IF value.type = "string" THEN Len(value.s) # 0
            ELSE IF value.type = "bool" THEN value.b ELSE ok]

\* k8sGetOk with the boolean existence check left out
k8sGetOkTruthy(dd, e, key) ==
    LET sch == kubernetesResource[key]
        Substitute(r) ==
            IF ~r.ok /\ sch.Func # "none"
            THEN Bind(DefaultFunc(sch, e), LAMBDA value : OfDefault(value, r.ok))
            ELSE r
    IN Bind(GetOk(dd, key), Substitute)

\* k8sGetOk with the default applied even when the block supplies the value
k8sGetOkAlwaysDefault(dd, e, key) ==
    LET sch == kubernetesResource[key]
        Exists(r0) == IF r0.value.type = "bool" THEN GetOkExists(dd, key) ELSE r0
        Substitute(r) ==
            IF sch.Func # "none"
            THEN Bind(DefaultFunc(sch, e), LAMBDA value : OfDefault(value, r.ok))
            ELSE r
    IN Bind(Bind(GetOk(dd, key), Exists), Substitute)

k8sGetOk(dd, e, key) ==
    LET sch == kubernetesResource[key]
        \* For boolean attributes the zero value is Ok
        Exists(r0) == IF r0.value.type = "bool" THEN GetOkExists(dd, key) ELSE r0
        \* fix: DefaultFunc is not being triggerred on TypeList
        Substitute(r) ==
            IF ~r.ok /\ sch.Func # "none"
            THEN Bind(DefaultFunc(sch, e), LAMBDA value : OfDefault(value, r.ok))
            ELSE r
    IN Bind(Bind(GetOk(dd, key), Exists), Substitute)

k8sGet(dd, e, key) == k8sGetOk(dd, e, key).value

-----------------------------------------------------------------------------
(* Top-level attributes and the helm_driver validation *)

\* strconv.ParseBool's true texts, as the schema decodes a bool attribute's default
TrueTexts == { <<"1">>, <<"t">>, <<"T">>, <<"t","r","u","e">>, <<"T","R","U","E">>, <<"T","r","u","e">> }

\* d.Get(key) of a top-level attribute: the configured value, else its DefaultFunc,
\* decoded to the attribute's type
TopGet(dd, e, key) ==
    LET sch == ProviderSchema[key]
        Decode(raw) ==
            IF sch.Type = "bool" /\ raw.type = "string"
            THEN BoolV(raw.s \in TrueTexts)
            ELSE raw
    IN Bind(IF dd[key].set THEN dd[key].v ELSE DefaultFunc(sch, e), Decode)

\* d.GetOk(key) of a top-level attribute
TopGetOk(dd, e, key) ==
    Bind(TopGet(dd, e, key),
         LAMBDA value : [value |-> value, ok |-> value # ZeroOf(ProviderSchema[key].Type)])

configmap == <<"c","o","n","f","i","g","m","a","p">>
secret == <<"s","e","c","r","e","t">>
memory == <<"m","e","m","o","r","y">>

drivers == <<configmap, secret, memory>>

MustBeValid == <<" ","m","u","s","t"," ","b","e"," ","a"," ","v","a","l","i","d"," ","s","t","o","r","a","g","e"," ","d","r","i","v","e","r">>

\* the helm_driver ValidateFunc comparing the value as written
ValidateFuncCaseSensitive(val) ==
    LET v == val
    IN IF \E i \in DOMAIN drivers : drivers[i] = v
       THEN <<>>
       ELSE << ToLower(val) \o MustBeValid >>

\* the helm_driver ValidateFunc: the errs it returns (warns is always empty)
ValidateFunc(val) ==
    LET v == ToLower(val)
    IN IF \E i \in DOMAIN drivers : drivers[i] = v
       THEN <<>>
       ELSE << v \o MustBeValid >>

-----------------------------------------------------------------------------
(* Cluster-access resolution: getK8sConfig *)

NoErr == "nil"
ErrExpand == "cannot expand user-specific home dir"

HomeDir == <<"/","h","o","m","e","/","u">>

\* homedir.Expand(path)
Expand(path) ==
    IF Len(path) = 0 THEN [path |-> path, err |-> NoErr]
    ELSE IF path[1] # "~" THEN [path |-> path, err |-> NoErr]
    ELSE IF Len(path) > 1 /\ path[2] # "/" /\ path[2] # "\\"
         THEN [path |-> EmptyStr, err |-> ErrExpand]
    ELSE [path |-> HomeDir \o Tail(path), err |-> NoErr]

\* genericclioptions.NewConfigFlags(true): every field points to an empty value
NewConfigFlags ==
    [ KubeConfig  |-> StrV(EmptyStr), Context  |-> StrV(EmptyStr),
      Namespace   |-> StrV(EmptyStr), Username |-> StrV(EmptyStr),
      Password    |-> StrV(EmptyStr), BearerToken |-> StrV(EmptyStr),
      Insecure    |-> BoolV(FALSE),   CertFile |-> StrV(EmptyStr),
      KeyFile     |-> StrV(EmptyStr), CAFile   |-> StrV(EmptyStr),
      ClusterName |-> StrV(EmptyStr) ]

\* a *genericclioptions.ConfigFlags: nil, or a pointer to an object
NilFlags == [nil |-> TRUE, obj |-> NewConfigFlags]
PtrTo(obj) == [nil |-> FALSE, obj |-> obj]

\* the credential assignments of getK8sConfig, in source order: the attribute read,
\* the Go type it is asserted to, and the field of m.ConfigFlags it is assigned to
CredSteps ==
    << [key |-> "username",               type |-> "string", field |-> "Username"],
       [key |-> "password",               type |-> "string", field |-> "Username"],
       [key |-> "token",                  type |-> "string", field |-> "BearerToken"],
       [key |-> "insecure",               type |-> "bool",   field |-> "Insecure"],
       [key |-> "client_certificate",     type |-> "string", field |-> "CertFile"],
       [key |-> "client_key",             type |-> "string", field |-> "KeyFile"],
       [key |-> "cluster_ca_certificate", type |-> "string", field |-> "CAFile"],
       [key |-> "host",                   type |-> "string", field |-> "ClusterName"] >>

\* steps i.. of CredSteps applied through the pointer m.ConfigFlags (mcf): a failed
\* type assertion or an assignment through a nil pointer panics
RECURSIVE ApplyCreds(_, _, _, _)
ApplyCreds(mcf, dd, e, i) ==
    IF i > Len(CredSteps) THEN [panic |-> FALSE, mcf |-> mcf]
    ELSE LET step == CredSteps[i]
             Assign(r) ==
                IF ~r.ok THEN ApplyCreds(mcf, dd, e, i + 1)
                ELSE IF r.value.type # step.type THEN [panic |-> TRUE, mcf |-> mcf]
                ELSE IF mcf.nil THEN [panic |-> TRUE, mcf |-> mcf]
                ELSE Bind(PtrTo([mcf.obj EXCEPT ![step.field] = r.value]),
                          LAMBDA p : ApplyCreds(p, dd, e, i + 1))
         IN Bind(k8sGetOk(dd, e, step.key), Assign)

\* the part of getK8sConfig after the kubeconfig path: context, namespace,
\* credentials, and the final m.ConfigFlags = cf
K8sConfigTail(mcf, dd, e, cf) ==
    LET SetContext(ctx) == IF ctx.ok THEN [cf EXCEPT !.Context = ctx.value] ELSE cf
        SetNamespace(cf1) ==
            Bind(TopGetOk(dd, e, "helm_namespace"),
                 LAMBDA nsp : IF nsp.ok THEN [cf1 EXCEPT !.Namespace = nsp.value] ELSE cf1)
        Finish(creds) ==
            IF creds.panic
            THEN [outcome |-> "panic", ConfigFlags |-> mcf, err |-> NoErr]
            ELSE [outcome |-> "ok",
                  ConfigFlags |-> PtrTo(Bind(Bind(k8sGetOk(dd, e, "config_context"), SetContext),
                                             SetNamespace)),
                  err |-> NoErr]
    IN Bind(ApplyCreds(mcf, dd, e, 1), Finish)

\* (m *Meta) getK8sConfig(d), called with m.ConfigFlags = mcf: how it ends
\* ("ok": returned nil, "err": returned err, "panic"), and m.ConfigFlags afterwards
getK8sConfig(mcf, dd, e) ==
    LET cf == NewConfigFlags
        Expanded(x) ==
            IF x.err # NoErr
            THEN [outcome |-> "err", ConfigFlags |-> mcf, err |-> x.err]
            ELSE K8sConfigTail(mcf, dd, e, [cf EXCEPT !.KubeConfig = StrV(x.path)])
        KubeConfig(path) ==
            IF path.ok
            THEN Bind(Expand(path.value.s), Expanded)
            ELSE K8sConfigTail(mcf, dd, e, cf)
        LoadFile(loadFile) ==
            IF loadFile.type # "bool"
            THEN [outcome |-> "panic", ConfigFlags |-> mcf, err |-> NoErr]
            ELSE IF loadFile.b
            THEN Bind(k8sGetOk(dd, e, "config_path"), KubeConfig)
            ELSE K8sConfigTail(mcf, dd, e, cf)
        InCluster(inCluster) ==
            IF inCluster.type # "bool"
            THEN [outcome |-> "panic", ConfigFlags |-> mcf, err |-> NoErr]
            ELSE IF inCluster.b THEN K8sConfigTail(mcf, dd, e, cf)
            ELSE Bind(k8sGet(dd, e, "load_config_file"), LoadFile)
    IN Bind(k8sGet(dd, e, "in_cluster"), InCluster)

-----------------------------------------------------------------------------
(* providerConfigure and buildSettings *)

\* cli.EnvSettings as buildSettings fills it
NoSettings ==
    [ Debug |-> FALSE, PluginsDirectory |-> EmptyStr, RegistryConfig |-> EmptyStr,
      RepositoryConfig |-> EmptyStr, RepositoryCache |-> EmptyStr ]

\* &Meta{data: d}
NewMeta == [Settings |-> [nil |-> TRUE, obj |-> NoSettings],
            ConfigFlags |-> NilFlags, HelmDriver |-> EmptyStr]

\* the string of a top-level attribute when d.GetOk reports it, else the old value
OkOr(dd, e, key, old) ==
    Bind(TopGetOk(dd, e, key), LAMBDA r : IF r.ok THEN r.value.s ELSE old)

\* (m *Meta) buildSettings(d): the Meta afterwards and the error returned.
\* The value getK8sConfig returns is dropped; buildSettings returns nil.
buildSettings(m0, dd, e) ==
    LET settings ==
            [ Debug            |-> TopGet(dd, e, "debug").b,
              PluginsDirectory |-> OkOr(dd, e, "plugins_path", EmptyStr),
              RegistryConfig   |-> OkOr(dd, e, "registry_config_path", EmptyStr),
              RepositoryConfig |-> OkOr(dd, e, "repository_config_path", EmptyStr),
              RepositoryCache  |-> OkOr(dd, e, "repository_cache", EmptyStr) ]
        Finish(k8s) ==
            [ panic |-> k8s.outcome = "panic",
              m |-> [ Settings    |-> [nil |-> FALSE, obj |-> settings],
                      ConfigFlags |-> k8s.ConfigFlags,
                      HelmDriver  |-> OkOr(dd, e, "helm_driver", m0.HelmDriver) ],
              err |-> NoErr ]
    IN Bind(getK8sConfig(m0.ConfigFlags, dd, e), Finish)

\* providerConfigure(d, terraformVersion): "returned" with (Meta, nil) or (nil, err),
\* or "panicked"
providerConfigure(dd, e) ==
    LET Result(r) ==
            IF r.panic
            THEN [status |-> "panicked", hasMeta |-> FALSE, m |-> NewMeta, err |-> NoErr]
            ELSE IF r.err # NoErr
            THEN [status |-> "returned", hasMeta |-> FALSE, m |-> NewMeta, err |-> r.err]
            ELSE [status |-> "returned", hasMeta |-> TRUE, m |-> r.m, err |-> NoErr]
    IN Bind(buildSettings(NewMeta, dd, e), Result)

-----------------------------------------------------------------------------
(* Inputs: configuration blocks and environments *)

\* values an input may give an attribute of the kubernetes block
K8sValues(key) ==
    IF kubernetesResource[key].Type = "bool" THEN { BoolV(TRUE), BoolV(FALSE) }
    ELSE IF key = "config_path"
    THEN { StrV(EmptyStr), StrV(<<"~","/","k">>), StrV(<<"~","u","/","k">>), StrV(<<"/","k">>) }
    ELSE IF key = "username" THEN { StrV(EmptyStr), StrV(<<"u">>) }
    ELSE IF key = "password" THEN { StrV(EmptyStr), StrV(<<"p">>) }
    ELSE { StrV(EmptyStr), StrV(<<"v">>) }

\* texts an input may give an environment variable
EnvValues(var) ==
    IF var = "KUBE_INSECURE" THEN { <<"t","r","u","e">> }
    ELSE IF var = "KUBE_LOAD_CONFIG_FILE" THEN { <<"f","a","l","s","e">> }
    ELSE IF var = "KUBE_CONFIG" THEN { <<"/","e">> }
    ELSE IF var = "KUBECONFIG" THEN { <<"~","e","/","k">> }
    ELSE IF var = "HELM_DRIVER" THEN { memory, <<"B","o","g","u","s">> }
    ELSE IF var = "HELM_DEBUG" THEN { <<"1">> }
    ELSE { <<"e">> }

AllK8sValues == UNION { K8sValues(k) : k \in K8sKeys }
AllEnvValues == UNION { EnvValues(v) : v \in EnvVars }

EmptyBlock == [k \in K8sKeys |-> Unset]
NoEnv == [v \in EnvVars |-> EmptyStr]

\* the kubernetes blocks with at most n attributes present
Blocks(n) ==
    UNION { { [k \in K8sKeys |-> IF k \in S THEN SetTo(f[k]) ELSE Unset] :
                f \in { g \in [S -> AllK8sValues] : \A k \in S : g[k] \in K8sValues(k) } } :
            S \in SubsetsUpTo(K8sKeys, n) }

\* the environments over the variables of V with at most n of them set
Envs(V, n) ==
    UNION { { [v \in EnvVars |-> IF v \in S THEN f[v] ELSE EmptyStr] :
                f \in { g \in [S -> AllEnvValues] : \A v \in S : g[v] \in EnvValues(v) } } :
            S \in SubsetsUpTo(V, n) }

K8sEnvVars ==
    UNION { { kubernetesResource[k].EnvKeys[i] : i \in DOMAIN kubernetesResource[k].EnvKeys } : k \in K8sKeys }

\* the attributes of the kubernetes block that environment e gives a default
AttrsSet(e) ==
    { k \in K8sKeys :
        \E i \in DOMAIN kubernetesResource[k].EnvKeys : e[kubernetesResource[k].EnvKeys[i]] # EmptyStr }

\* the environments that set variables of at most n attributes of the kubernetes block
\* (an attribute has at most two variables)
EnvsByAttr(n) == { e \in Envs(K8sEnvVars, 2 * n) : Cardinality(AttrsSet(e)) <= n }

\* a configuration that sets helm_driver, helm_namespace and the kubernetes block
MkConfig(driver, namespace, block) ==
    [ debug |-> Unset, plugins_path |-> Unset, registry_config_path |-> Unset,
      repository_config_path |-> Unset, repository_cache |-> Unset,
      helm_driver |-> driver, helm_namespace |-> namespace, kubernetes |-> block ]

ops == <<"o","p","s">>
sql == <<"s","q","l">>
secrets == <<"s","e","c","r","e","t","s">>

\* helm_driver texts tried against the ValidateFunc
DriverInputs ==
    UNION { CaseVariants(w, MaxUpper) : w \in { configmap, secret, memory, sql, secrets, EmptyStr } }
    \cup { [i \in 1..Len(w) |-> UpperChar(w[i])] : w \in { configmap, secret, memory, sql } }

-----------------------------------------------------------------------------
(* State *)

Callers == 1..NumCallers
Unlocked == 0

Namespaces == { ops, <<"d","e","f","a","u","l","t">> }
InitErrors == { "unreachable cluster", "malformed credentials" }

NoConf == [status |-> "none", hasMeta |-> FALSE, err |-> NoErr]
NoResolved == [key |-> "none", value |-> NilV, ok |-> FALSE]
NoArgs == [called |-> FALSE, getter |-> NilFlags, namespace |-> EmptyStr, helmDriver |-> EmptyStr]
NoHandle == [nil |-> TRUE, namespace |-> EmptyStr, helmDriver |-> EmptyStr]
NoRet == [returned |-> FALSE, actionConfig |-> NoHandle, err |-> NoErr]

\* no caller has entered GetHelmConfiguration
SessionIdle ==
    /\ mutex = Unlocked
    /\ pc = [c \in Callers |-> "Idle"]
    /\ ns = [c \in Callers |-> EmptyStr]
    /\ initErr = [c \in Callers |-> NoErr]
    /\ attempts = [c \in Callers |-> 0]
    /\ initArgs = [c \in Callers |-> NoArgs]
    /\ ret = [c \in Callers |-> NoRet]
    /\ started = 0

\* nothing validated, configured or resolved yet
Unconfigured ==
    /\ phase = "input"
    /\ verrs = <<>>
    /\ conf = NoConf
    /\ m = NewMeta
    /\ resolved = NoResolved

-----------------------------------------------------------------------------
(* Resolution of one attribute of the kubernetes block *)

ResolveConfigs == { MkConfig(Unset, Unset, b) : b \in Blocks(MaxBlockFields) }
ResolveEnvs == EnvsByAttr(MaxEnvAttrs)

InitResolve ==
    /\ d \in ResolveConfigs
    /\ env \in ResolveEnvs
    /\ Unconfigured
    /\ SessionIdle

\* a call k8sGetOk(d, key)
Resolve(key) ==
    /\ phase = "input"
    /\ resolved = NoResolved
    /\ \E r \in { k8sGetOk(d, env, key) } :
          resolved' = [key |-> key, value |-> r.value, ok |-> r.ok]
    /\ UNCHANGED <<d, env, phase, verrs, conf, m>>
    /\ UNCHANGED sessionVars

NextResolve == \E key \in K8sKeys : Resolve(key)

SpecResolve == InitResolve /\ [][NextResolve]_vars

-----------------------------------------------------------------------------
(* Schema validation and provider configuration *)

\* the framework validates helm_driver (the configured value, else its default)
\* with the attribute's ValidateFunc
SchemaValidate ==
    /\ phase = "input"
    /\ verrs' = ValidateFunc(TopGet(d, env, "helm_driver").s)
    /\ phase' = "validated"
    /\ UNCHANGED <<d, env, conf, m, resolved>>
    /\ UNCHANGED sessionVars

\* p.ConfigureFunc, run once validation reported no error
ProviderConfigure ==
    /\ phase = "validated"
    /\ verrs = <<>>
    /\ \E r \in { providerConfigure(d, env) } :
          /\ conf' = [status |-> r.status, hasMeta |-> r.hasMeta, err |-> r.err]
          /\ m' = r.m
    /\ phase' = "configured"
    /\ UNCHANGED <<d, env, verrs, resolved>>
    /\ UNCHANGED sessionVars

ValidateConfigs ==
    { MkConfig(drv, Unset, EmptyBlock) :
        drv \in { Unset } \cup { SetTo(StrV(w)) : w \in DriverInputs } }
ValidateEnvs == Envs({ "HELM_DRIVER" }, 1)

InitValidate ==
    /\ d \in ValidateConfigs
    /\ env \in ValidateEnvs
    /\ Unconfigured
    /\ SessionIdle

NextValidate == SchemaValidate

SpecValidate == InitValidate /\ [][NextValidate]_vars

\* helm_driver entries tried in whole configurations
ConfigureDrivers ==
    { Unset, SetTo(StrV(secret)), SetTo(StrV(<<"S","E","C","R","E","T">>)), SetTo(StrV(sql)) }

ConfigureConfigs ==
    { MkConfig(drv, nsp, b) :
        drv \in ConfigureDrivers,
        nsp \in { Unset, SetTo(StrV(ops)) },
        b \in Blocks(MaxConfigFields) }
ConfigureEnvs == Envs(EnvVars, MaxConfigEnv)

InitConfigure ==
    /\ d \in ConfigureConfigs
    /\ env \in ConfigureEnvs
    /\ Unconfigured
    /\ SessionIdle

NextConfigure == SchemaValidate \/ ProviderConfigure

SpecConfigure == InitConfigure /\ [][NextConfigure]_vars

-----------------------------------------------------------------------------
(* The session factory: Meta.GetHelmConfiguration *)

\* m.Lock() with no mutual exclusion
LockFreeAlways(mu) == TRUE

\* m.Lock() returns only when the mutex is not held
LockFree(mu) == mu = Unlocked

\* an unlock on the success path only
UnlockOnSuccess(mu, err) == IF err = NoErr THEN Unlocked ELSE mu

\* defer m.Unlock(): the mutex after the function returns, whatever it returns
Unlock(mu, err) == Unlocked

\* a return that hands out the handle and drops Init's error
ReturnDroppingErr(actionConfig, err) ==
    [returned |-> TRUE, actionConfig |-> actionConfig, err |-> NoErr]

\* the (actionConfig, error) GetHelmConfiguration returns after Init returned err
ReturnOf(actionConfig, err) ==
    IF err # NoErr
    THEN [returned |-> TRUE, actionConfig |-> NoHandle, err |-> err]
    ELSE [returned |-> TRUE, actionConfig |-> actionConfig, err |-> NoErr]

\* a resource operation calls m.GetHelmConfiguration(namespace)
Call(c, namespace) ==
    /\ phase = "serving"
    /\ pc[c] = "Idle"
    /\ started < MaxCalls
    /\ started' = started + 1
    /\ pc' = [pc EXCEPT ![c] = "Lock"]
    /\ ns' = [ns EXCEPT ![c] = namespace]
    /\ initErr' = [initErr EXCEPT ![c] = NoErr]
    /\ attempts' = [attempts EXCEPT ![c] = 0]
    /\ initArgs' = [initArgs EXCEPT ![c] = NoArgs]
    /\ ret' = [ret EXCEPT ![c] = NoRet]
    /\ UNCHANGED <<d, env, phase, verrs, conf, m, resolved, mutex>>

\* m.Lock()
Lock(c) ==
    /\ pc[c] = "Lock"
    /\ LockFree(mutex)
    /\ mutex' = c
    /\ pc' = [pc EXCEPT ![c] = "Locked"]
    /\ UNCHANGED <<d, env, phase, verrs, conf, m, resolved>>
    /\ UNCHANGED <<ns, initErr, attempts, initArgs, ret, started>>

\* actionConfig := new(action.Configuration); actionConfig.Init(...) is entered
InitBegin(c) ==
    /\ pc[c] = "Locked"
    /\ pc' = [pc EXCEPT ![c] = "InInit"]
    /\ attempts' = [attempts EXCEPT ![c] = @ + 1]
    /\ initArgs' = [initArgs EXCEPT ![c] =
                      [called |-> TRUE, getter |-> m.ConfigFlags,
                       namespace |-> ns[c], helmDriver |-> m.HelmDriver]]
    /\ UNCHANGED <<d, env, phase, verrs, conf, m, resolved>>
    /\ UNCHANGED <<mutex, ns, initErr, ret, started>>

\* actionConfig.Init returns nil or an error
InitEnd(c, err) ==
    /\ pc[c] = "InInit"
    /\ pc' = [pc EXCEPT ![c] = "Return"]
    /\ initErr' = [initErr EXCEPT ![c] = err]
    /\ UNCHANGED <<d, env, phase, verrs, conf, m, resolved>>
    /\ UNCHANGED <<mutex, ns, attempts, initArgs, ret, started>>

\* GetHelmConfiguration returns and the deferred m.Unlock() runs
Return(c) ==
    /\ pc[c] = "Return"
    /\ ret' = [ret EXCEPT ![c] =
                 ReturnOf([nil |-> FALSE, namespace |-> initArgs[c].namespace,
                           helmDriver |-> initArgs[c].helmDriver], initErr[c])]
    /\ mutex' = Unlock(mutex, initErr[c])
    /\ pc' = [pc EXCEPT ![c] = "Idle"]
    /\ UNCHANGED <<d, env, phase, verrs, conf, m, resolved>>
    /\ UNCHANGED <<ns, initErr, attempts, initArgs, started>>

\* configurations the provider serves sessions under
SessionConfigs ==
    { MkConfig(drv, nsp, b) :
        drv \in { Unset, SetTo(StrV(memory)) },
        nsp \in { Unset, SetTo(StrV(ops)) },
        b \in { EmptyBlock, [EmptyBlock EXCEPT !["in_cluster"] = SetTo(BoolV(TRUE))] } }

\* the provider was validated and configured, and returned a Meta
InitSession ==
    /\ d \in SessionConfigs
    /\ env = NoEnv
    /\ verrs = ValidateFunc(TopGet(d, env, "helm_driver").s)
    /\ verrs = <<>>
    /\ \E r \in { providerConfigure(d, env) } :
          /\ r.status = "returned"
          /\ r.hasMeta
          /\ conf = [status |-> r.status, hasMeta |-> r.hasMeta, err |-> r.err]
          /\ m = r.m
    /\ phase = "serving"
    /\ resolved = NoResolved
    /\ SessionIdle

NextSession ==
    \E c \in Callers :
        \/ \E namespace \in Namespaces : Call(c, namespace)
        \/ Lock(c)
        \/ InitBegin(c)
        \/ \E err \in { NoErr } \cup InitErrors : InitEnd(c, err)
        \/ Return(c)

SpecSession == InitSession /\ [][NextSession]_vars

\* every Init terminates, lock acquisition is fair (sync.Mutex hands the lock to a
\* starved waiter), and a caller that can take its next step takes it
FairSession ==
    /\ SpecSession
    /\ \A c \in Callers :
        /\ SF_vars(Lock(c))
        /\ WF_vars(InitBegin(c))
        /\ WF_vars(\E err \in { NoErr } \cup InitErrors : InitEnd(c, err))
        /\ WF_vars(Return(c))

-----------------------------------------------------------------------------
(* Properties of k8sGetOk, checked under SpecResolve *)

\* the attribute of the last k8sGetOk call, as the block gives it
Entry == d.kubernetes[resolved.key]

\* the first non-empty environment variable of an attribute, "" when none is set
EnvText(key) ==
    LET ks == kubernetesResource[key].EnvKeys
    IN IF Len(ks) >= 1 /\ env[ks[1]] # EmptyStr THEN env[ks[1]]
       ELSE IF Len(ks) >= 2 /\ env[ks[2]] # EmptyStr THEN env[ks[2]]
       ELSE EmptyStr

\* the hard-coded default of an attribute (the zero value when it has no DefaultFunc)
HardDefault(key) ==
    IF kubernetesResource[key].Func = "none"
    THEN ZeroOf(kubernetesResource[key].Type)
    ELSE kubernetesResource[key].Dv

\* the block supplies the attribute: it is present, and a string is not empty
Supplied(key) ==
    /\ d.kubernetes[key].set
    /\ kubernetesResource[key].Type = "string" => d.kubernetes[key].v.s # EmptyStr

\* C2 as stated: for every attribute of the kubernetes block, k8sGetOk returns the
\* block's value when the block has one, else the environment variable's text when
\* it is set, else the hard-coded default.
C2_PrecedenceAsClaimed ==
    resolved.key \in K8sKeys =>
        /\ Entry.set => resolved.value = Entry.v
        /\ ~Entry.set /\ EnvText(resolved.key) # EmptyStr
              => resolved.value = StrV(EnvText(resolved.key))
        /\ ~Entry.set /\ EnvText(resolved.key) = EmptyStr
              => resolved.value = HardDefault(resolved.key)

\* C2 amended: the precedence block > environment > default holds where "the block
\* supplies a value" means a boolean that is present or a string that is present
\* and not empty; a string attribute set to "" in the block is resolved as if absent.
C2_Precedence ==
    resolved.key \in K8sKeys =>
        /\ Supplied(resolved.key) => resolved.value = Entry.v
        /\ ~Supplied(resolved.key) /\ EnvText(resolved.key) # EmptyStr
              => resolved.value = StrV(EnvText(resolved.key))
        /\ ~Supplied(resolved.key) /\ EnvText(resolved.key) = EmptyStr
              => resolved.value = HardDefault(resolved.key)

\* k8sGetOk was called for host with both the block and KUBE_HOST giving a value
C2_Witness ==
    /\ resolved.key = "host"
    /\ Entry = SetTo(StrV(<<"v">>))
    /\ env["KUBE_HOST"] = <<"e">>
    /\ resolved.value = StrV(<<"v">>)

BoolKeys == { k \in K8sKeys : kubernetesResource[k].Type = "bool" }

\* C3: for every boolean attribute of the kubernetes block, a value present in the
\* block (false included) is returned as it is, with ok true and no default
\* substituted, whatever the environment and the default are.
C3_ExplicitFalseKept ==
    resolved.key \in BoolKeys /\ Entry.set =>
        /\ resolved.value = Entry.v
        /\ resolved.ok

\* k8sGetOk was called for load_config_file, which the block sets to false while
\* KUBE_LOAD_CONFIG_FILE is set and the default is true
C3_Witness ==
    /\ resolved.key = "load_config_file"
    /\ Entry = SetTo(BoolV(FALSE))
    /\ env["KUBE_LOAD_CONFIG_FILE"] # EmptyStr
    /\ resolved.value = BoolV(FALSE)

-----------------------------------------------------------------------------
(* Properties of the helm_driver validation, checked under SpecValidate *)

\* the helm_driver text that validation sees
DriverText == TopGet(d, env, "helm_driver").s

\* equality of two strings up to the case of their letters
EqualFold(a, b) ==
    /\ Len(a) = Len(b)
    /\ \A i \in 1..Len(a) : UpperChar(a[i]) = UpperChar(b[i])

IsDriver(s) == EqualFold(s, configmap) \/ EqualFold(s, secret) \/ EqualFold(s, memory)

\* C5 as stated: validation returns no error exactly for the strings equal to
\* configmap, secret or memory up to case, and for any other string one error
\* whose message contains that string.
C5_ValidationAsClaimed ==
    phase = "validated" =>
        /\ IsDriver(DriverText) <=> verrs = <<>>
        /\ ~IsDriver(DriverText) => Len(verrs) = 1 /\ Contains(verrs[1], DriverText)

\* C5 amended: validation returns no error exactly for the strings equal to
\* configmap, secret or memory up to case, and for any other string one error
\* whose message is that string in lower case followed by
\* " must be a valid storage driver".
C5_Validation ==
    phase = "validated" =>
        /\ IsDriver(DriverText) <=> verrs = <<>>
        /\ ~IsDriver(DriverText) =>
              /\ Len(verrs) = 1
              /\ Len(verrs[1]) = Len(DriverText) + Len(MustBeValid)
              /\ EqualFold(SubSeq(verrs[1], 1, Len(DriverText)), DriverText)
              /\ \A i \in 1..Len(DriverText) : verrs[1][i] = LowerChar(verrs[1][i])
              /\ SubSeq(verrs[1], Len(DriverText) + 1, Len(verrs[1])) = MustBeValid

\* validation rejected the unknown name "SqL" with a message naming "sql"
C5_Witness ==
    /\ phase = "validated"
    /\ DriverText = <<"S","q","L">>
    /\ verrs = << sql \o MustBeValid >>

-----------------------------------------------------------------------------
(* Properties of providerConfigure, checked under SpecConfigure *)

\* C4 as stated: with username and password set to two different non-empty values,
\* configuration stores the username in the username field and the password in the
\* password field of the resulting ConfigFlags.
C4_UsernamePasswordDistinct ==
    ( /\ phase = "configured"
      /\ d.kubernetes["username"] = SetTo(StrV(<<"u">>))
      /\ d.kubernetes["password"] = SetTo(StrV(<<"p">>)) )
    => /\ conf.status = "returned"
       /\ conf.hasMeta
       /\ ~m.ConfigFlags.nil
       /\ m.ConfigFlags.obj.Username = StrV(<<"u">>)
       /\ m.ConfigFlags.obj.Password = StrV(<<"p">>)

\* the kubeconfig path is used (in_cluster false, load_config_file true) and its
\* expansion fails
ExpansionFails ==
    /\ k8sGet(d, env, "in_cluster") = BoolV(FALSE)
    /\ k8sGet(d, env, "load_config_file") = BoolV(TRUE)
    /\ k8sGetOk(d, env, "config_path").ok
    /\ Expand(k8sGet(d, env, "config_path").s).err # NoErr

\* C6 as stated: when expansion of the kubeconfig path fails, providerConfigure
\* returns that error and no Meta.
C6_ExpansionErrorSurfaced ==
    phase = "configured" /\ ExpansionFails =>
        /\ conf.status = "returned"
        /\ ~conf.hasMeta
        /\ conf.err = Expand(k8sGet(d, env, "config_path").s).err

\* the values held by the fields of a ConfigFlags
Carried(flags) == { flags.obj[f] : f \in DOMAIN flags.obj }

\* C7 as stated: whenever a credential attribute of the kubernetes block resolves
\* to a set value, configuration completes with a Meta whose ConfigFlags carries
\* that value; with helm_driver=secret, helm_namespace=ops, insecure=true and no
\* environment, the result has HelmDriver secret, namespace ops and insecure true.
C7_CredentialsReachConfigFlags ==
    phase = "configured" =>
        /\ \A i \in DOMAIN CredSteps :
              k8sGetOk(d, env, CredSteps[i].key).ok
                => /\ conf.status = "returned"
                   /\ conf.hasMeta
                   /\ ~m.ConfigFlags.nil
                   /\ k8sGet(d, env, CredSteps[i].key) \in Carried(m.ConfigFlags)
        /\ ( /\ d.helm_driver = SetTo(StrV(secret))
             /\ d.helm_namespace = SetTo(StrV(ops))
             /\ d.kubernetes = [EmptyBlock EXCEPT !["insecure"] = SetTo(BoolV(TRUE))]
             /\ env = NoEnv )
           => /\ conf.status = "returned"
              /\ conf.hasMeta
              /\ m.HelmDriver = secret
              /\ ~m.ConfigFlags.nil
              /\ m.ConfigFlags.obj.Namespace = StrV(ops)
              /\ m.ConfigFlags.obj.Insecure = BoolV(TRUE)

\* C8 as stated: after validation passed and providerConfigure returned a Meta,
\* Meta.HelmDriver is one of configmap, secret, memory.
C8_DriverEnumerated ==
    phase = "configured" /\ conf.status = "returned" /\ conf.hasMeta =>
        m.HelmDriver \in { configmap, secret, memory }

-----------------------------------------------------------------------------
(* Properties of GetHelmConfiguration, checked under SpecSession and FairSession *)

\* the callers between the start and the end of actionConfig.Init
InInit == { c \in Callers : pc[c] = "InInit" }

\* C1: at most one caller is inside actionConfig.Init at any time.
C1_OneInitAtATime == Cardinality(InInit) <= 1

\* one caller is inside Init while another, called with a different namespace,
\* waits for the lock
C1_Witness ==
    \E c1, c2 \in Callers :
        /\ pc[c1] = "InInit"
        /\ pc[c2] = "Lock"
        /\ ns[c1] # ns[c2]

\* the last call of c has returned, and its Init had failed
FailedCall(c) == pc[c] = "Idle" /\ ret[c].returned /\ initErr[c] # NoErr

\* C9: a call whose Init failed returns that same error and no handle after exactly
\* one Init attempt, does not keep the lock, and no step of any call changes the
\* Meta (Settings, ConfigFlags, HelmDriver).
C9_InitFailure ==
    /\ [](\A c \in Callers :
            /\ FailedCall(c) =>
                  /\ ret[c].err = initErr[c]
                  /\ ret[c].actionConfig.nil
                  /\ attempts[c] = 1
                  /\ mutex # c
            /\ pc[c] = "Return" => attempts[c] = 1)
    /\ [][m' = m]_vars

\* one call failed and returned, and a call that took the lock after it has
\* finished Init successfully
C9_Witness ==
    \E c1, c2 \in Callers :
        /\ c1 # c2
        /\ FailedCall(c1)
        /\ pc[c2] = "Return"
        /\ initErr[c2] = NoErr

\* the callers that hold the lock according to their position
Holding == { c \in Callers : pc[c] \in { "Locked", "InInit", "Return" } }

\* C10: the lock is held exactly by the caller between m.Lock() and its return
\* (so it is free when no call is in progress, and released on the failure path as
\* on the success path), and every caller waiting for the lock eventually returns.
C10_LockReleased ==
    /\ [](\A c \in Callers : mutex = c <=> c \in Holding)
    /\ [](Holding = {} => mutex = Unlocked)
    /\ \A c \in Callers : (pc[c] = "Lock") ~> (pc[c] = "Idle" /\ ret[c].returned)

\* a call has returned an Init failure, the lock is free again, and another caller
\* is waiting for it
C10_Witness ==
    \E c1, c2 \in Callers :
        /\ FailedCall(c1)
        /\ mutex = Unlocked
        /\ pc[c2] = "Lock"

====
